---- MODULE Spec2Model ----
(***************************************************************************)
(* State machine of main.py: the monitor node of a swarm of light sensors. *)
(* Four threads share module-level globals without any lock:               *)
(*   main                 (lines 250-275)                                   *)
(*   listen_for_messages  (lines 102-154)  the ingestion loop               *)
(*   monitor_button       (lines 156-171)  the trigger monitor, which calls *)
(*                        save_current_logs, get_new_log_file, reset_system *)
(*   plot_graph           (lines 173-246)  the snapshot consumer            *)
(* One action is one statement (or one run of statements that touch only    *)
(* thread-local data) of one thread; the pc values carry the line number.   *)
(* Text is a sequence of one-character strings, so that startswith,         *)
(* endswith, slicing, split and int are computed as Python computes them.   *)
(* Spec is the whole program.  ReadingsSpec (more datagrams, all of them    *)
(* applied) and MonitorSpec (more presses, no datagram) are runs of it in   *)
(* which the graph thread is not scheduled; FairSpec adds fair scheduling   *)
(* of the listener and of the reset sequence.                               *)
(***************************************************************************)
EXTENDS Integers, Sequences, FiniteSets, TLC

\* ---------------------------------------------------------------- bounds
\* Datagrams delivered to recvfrom in one run.
MaxDatagrams == 2
\* Rising edges of the button in one run.
MaxPresses == 1
\* deque(maxlen=30) of line 35, scaled down so that eviction is reachable.
ReadingsCapacity == 3
\* Datagrams delivered in one run of the specification of the readings.
MaxReadingDatagrams == 4
\* Rising edges of the button in one run of the specification of the monitor.
MaxMonitorPresses == 2
\* Datagrams delivered in one run of the fair specification.
MaxFairDatagrams == 1

\* ------------------------------------------------------- Python values
None == <<>>
Some(x) == <<x>>
IsNone(o) == o = <<>>
TheValue(o) == o[1]

EmptyDict == <<>>

\* d[k] = v on a dict
DictPut(d, k, v) == [x \in (DOMAIN d) \cup {k} |-> IF x = k THEN v ELSE d[x]]

\* d[k] on a defaultdict with factory value dflt (read part)
DefaultGet(d, k, dflt) == IF k \in DOMAIN d THEN d[k] ELSE dflt

\* ------------------------------------------------------------ protocol
RPi_startBit == <<"+", "+", "+">>
RPi_endBit == <<"*", "*", "*">>

\* the body of the reset announcement, "RESET_REQUESTED"
ResetBody == <<"R","E","S","E","T","_","R","E","Q","U","E","S","T","E","D">>

\* reset_message of line 85
reset_message == RPi_startBit \o ResetBody \o RPi_endBit

\* A byte that is not valid UTF-8.
BadByte == "xFF"

\* bytes.decode('utf-8') of line 116: raises on an invalid byte
Decodable(bytes) == \A i \in 1..Len(bytes) : bytes[i] # BadByte

\* str.startswith
StartsWith(s, p) == Len(s) >= Len(p) /\ SubSeq(s, 1, Len(p)) = p

\* str.endswith
EndsWith(s, p) == Len(s) >= Len(p) /\ SubSeq(s, Len(s) - Len(p) + 1, Len(s)) = p

\* message[len(RPi_startBit):-len(RPi_endBit)] of line 120
StripMarkers(s) == SubSeq(s, Len(RPi_startBit) + 1, Len(s) - Len(RPi_endBit))

\* ',' in data
HasComma(s) == \E i \in 1..Len(s) : s[i] = ","

\* data.split(','): the list of the pieces between the commas
RECURSIVE SplitFrom(_, _, _)
SplitFrom(s, i, cur) ==
    IF i > Len(s) THEN <<cur>>
    ELSE IF s[i] = "," THEN <<cur>> \o SplitFrom(s, i + 1, <<>>)
    ELSE SplitFrom(s, i + 1, Append(cur, s[i]))

Split(s) == SplitFrom(s, 1, <<>>)

Digits == {"0", "1", "2", "3", "4", "5", "6", "7", "8", "9"}

DigitVal(c) ==
    CASE c = "0" -> 0 [] c = "1" -> 1 [] c = "2" -> 2 [] c = "3" -> 3
      [] c = "4" -> 4 [] c = "5" -> 5 [] c = "6" -> 6 [] c = "7" -> 7
      [] c = "8" -> 8 [] c = "9" -> 9

AllDigits(s) == Len(s) >= 1 /\ \A i \in 1..Len(s) : s[i] \in Digits

\* int(text) succeeds: an optional sign followed by at least one digit
IntParsable(s) ==
    IF Len(s) >= 1 /\ s[1] \in {"+", "-"} THEN AllDigits(Tail(s)) ELSE AllDigits(s)

RECURSIVE DigitsVal(_, _)
DigitsVal(s, acc) ==
    IF s = <<>> THEN acc ELSE DigitsVal(Tail(s), 10 * acc + DigitVal(Head(s)))

\* int(text) of line 139, for IntParsable text
IntOf(s) ==
    IF s[1] = "-" THEN 0 - DigitsVal(Tail(s), 0)
    ELSE IF s[1] = "+" THEN DigitsVal(Tail(s), 0)
    ELSE DigitsVal(s, 0)

\* ------------------------------------------------------ the environment
Frame(body) == RPi_startBit \o body \o RPi_endBit

\* The datagrams the network delivers: the payload and the sender's address
\* (address[0] of line 121).
Datagrams ==
    { [bytes |-> Frame(<<"A", ",", "5">>), ip |-> "ip1"],
      [bytes |-> Frame(<<"B", ",", "7">>), ip |-> "ip2"],
      [bytes |-> Frame(<<"A">>), ip |-> "ip1"],
      [bytes |-> Frame(<<"A", ",", "5", ",", "7">>), ip |-> "ip1"],
      [bytes |-> Frame(<<"A", ",", "x">>), ip |-> "ip2"],
      [bytes |-> <<"A", ",", "5">> \o RPi_endBit, ip |-> "ip1"],
      [bytes |-> RPi_startBit \o <<"A", ",", "5">>, ip |-> "ip1"],
      [bytes |-> reset_message, ip |-> "ip2"],
      [bytes |-> <<BadByte>>, ip |-> "ip1"] }

\* A deque that is given no maxlen: append never evicts.
DequeAppend_Unbounded(q, x) == Append(q, x)

\* deque.append on a deque with maxlen
DequeAppend(q, x) ==
    IF Len(q) >= ReadingsCapacity THEN Tail(q) \o <<x>> ELSE Append(q, x)

\* ------------------------------------------------------------- the state
VARIABLES
    main_pc,                \* position of the main thread (lines 250-275)
    l_pc,                   \* position of listen_for_messages
    m_pc,                   \* position of monitor_button and its callees
    g_pc,                   \* position of plot_graph
    PREV_BUTTON_STATE,      \* line 32
    RESET_REQUEST,          \* line 33
    STOP_THREADS,           \* line 34
    ANALOG_READINGS,        \* line 35
    SWARM_COLORS,           \* line 36
    CURRENT_MASTER,         \* line 37
    MASTER_DURATION_TRACK,  \* line 38
    MASTER_LOG_TRACK,       \* line 39
    LOG_FILE,               \* line 40
    sock,                   \* the UDP socket of line 25: "open" or "closed"
    yellow_led,             \* level of yellow_led_line
    sent,                   \* reset announcements handed to sendto
    files,                  \* the log files on disk, by name
    now,                    \* wall clock in whole seconds
    rx,                     \* locals of listen_for_messages for one datagram
    button_state,           \* local of monitor_button
    frame,                  \* what update_plot read, in the refresh under way
    received,               \* datagrams delivered so far
    presses,                \* rising edges seen so far
    session,                \* history: number of get_new_log_file calls
    accepted,               \* history: messages fully applied since the clear
    flushed,                \* history: name of the file save_current_logs opened last
    appliedInReset,         \* history: a message was received or finished with the flag set
    lastAccepted,           \* history: id of the message applied last since the clear
    trail                   \* history: the steps of the sequence the last press started

globals == <<PREV_BUTTON_STATE, RESET_REQUEST, STOP_THREADS, ANALOG_READINGS,
             SWARM_COLORS, CURRENT_MASTER, MASTER_DURATION_TRACK,
             MASTER_LOG_TRACK, LOG_FILE>>

store == <<ANALOG_READINGS, SWARM_COLORS, CURRENT_MASTER, MASTER_DURATION_TRACK>>

pcs == <<main_pc, l_pc, m_pc, g_pc>>

devices == <<sock, yellow_led, sent, files, now>>

\* The history variables but trail.
counters == <<received, presses, session, accepted, flushed, appliedInReset,
              lastAccepted>>

history == <<counters, trail>>

vars == <<pcs, globals, devices, rx, button_state, frame, history>>

\* The locals of listen_for_messages when no datagram is being processed.
NoRx == [ip |-> "", data |-> <<>>, swarm_id |-> <<>>, analog_reading |-> <<>>,
         color |-> "", inReset |-> FALSE, afterReset |-> FALSE]

\* No refresh of the figure is under way.
NoFrame == [master |-> None]

\* Module globals as lines 17-41 leave them; no thread is started yet.
Init ==
    /\ main_pc = "m252"
    /\ l_pc = "unstarted"
    /\ m_pc = "unstarted"
    /\ g_pc = "unstarted"
    /\ PREV_BUTTON_STATE = 0
    /\ RESET_REQUEST = FALSE
    /\ STOP_THREADS = FALSE
    /\ ANALOG_READINGS = <<>>
    /\ SWARM_COLORS = EmptyDict
    /\ CURRENT_MASTER = None
    /\ MASTER_DURATION_TRACK = EmptyDict
    /\ MASTER_LOG_TRACK = EmptyDict
    /\ LOG_FILE = None
    /\ sock = "open"
    /\ yellow_led = 0
    /\ sent = 0
    /\ files = EmptyDict
    /\ now = 0
    /\ rx = NoRx
    /\ button_state = 0
    /\ frame = NoFrame
    /\ received = 0
    /\ presses = 0
    /\ session = 0
    /\ accepted = EmptyDict
    /\ flushed = None
    /\ appliedInReset = FALSE
    /\ lastAccepted = None
    /\ trail = <<>>

\* --------------------------------------------------------- main thread
\* get_new_log_file (lines 43-51): the name is the clock read to the second.
\* The clock is followed only as far as names depend on it; the second in
\* which the name was taken is over before the clock is read again.
get_new_log_file ==
    /\ LOG_FILE' = Some(now)
    /\ now' = now + 1
    /\ session' = session + 1

\* line 252
Main252 ==
    /\ main_pc = "m252"
    /\ get_new_log_file
    /\ main_pc' = "m260"
    /\ UNCHANGED <<l_pc, m_pc, g_pc, PREV_BUTTON_STATE, RESET_REQUEST, STOP_THREADS,
                   ANALOG_READINGS, SWARM_COLORS, CURRENT_MASTER,
                   MASTER_DURATION_TRACK, MASTER_LOG_TRACK, sock, yellow_led,
                   sent, files, rx, button_state, frame, received, presses,
                   accepted, appliedInReset, flushed, lastAccepted, trail>>

\* lines 255-260: button_thread.start()
Main260 ==
    /\ main_pc = "m260"
    /\ main_pc' = "m261"
    /\ m_pc' = "m163"
    /\ UNCHANGED <<l_pc, g_pc, globals, devices, rx, button_state, frame, history>>

\* line 261: receive_thread.start()
Main261 ==
    /\ main_pc = "m261"
    /\ main_pc' = "m262"
    /\ l_pc' = "l109"
    /\ UNCHANGED <<m_pc, g_pc, globals, devices, rx, button_state, frame, history>>

\* line 262: graph_thread.start(), then the joins of lines 265-267
Main262 ==
    /\ main_pc = "m262"
    /\ main_pc' = "join"
    /\ g_pc' = "g184"
    /\ UNCHANGED <<l_pc, m_pc, globals, devices, rx, button_state, frame, history>>

\* lines 269-271: KeyboardInterrupt while joining; STOP_THREADS = True
Main271 ==
    /\ main_pc = "join"
    /\ main_pc' = "m272"
    /\ STOP_THREADS' = TRUE
    /\ UNCHANGED <<l_pc, m_pc, g_pc, PREV_BUTTON_STATE, RESET_REQUEST,
                   ANALOG_READINGS, SWARM_COLORS, CURRENT_MASTER,
                   MASTER_DURATION_TRACK, MASTER_LOG_TRACK, LOG_FILE, devices,
                   rx, button_state, frame, history>>

\* line 272: sock.close(), then the joins of lines 273-274
Main272 ==
    /\ main_pc = "m272"
    /\ main_pc' = "m273"
    /\ sock' = "closed"
    /\ UNCHANGED <<l_pc, m_pc, g_pc, globals, yellow_led, sent, files, now, rx,
                   button_state, frame, history>>

\* ------------------------------------------- listen_for_messages thread
\* line 109: while not STOP_THREADS
L109 ==
    /\ l_pc = "l109"
    /\ l_pc' = IF STOP_THREADS THEN "done" ELSE "l110"
    /\ UNCHANGED <<main_pc, m_pc, g_pc, globals, devices, rx, button_state,
                   frame, history>>

\* line 110: if not RESET_REQUEST
L110 ==
    /\ l_pc = "l110"
    /\ l_pc' = IF RESET_REQUEST THEN "l109" ELSE "l112"
    /\ UNCHANGED <<main_pc, m_pc, g_pc, globals, devices, rx, button_state,
                   frame, history>>

\* line 112: sock.recvfrom is called; on a closed socket it raises
\* socket.error and line 114 leaves the loop, otherwise the call blocks.
L112 ==
    /\ l_pc = "l112"
    /\ l_pc' = IF sock = "closed" THEN "done" ELSE "l112w"
    /\ UNCHANGED <<main_pc, m_pc, g_pc, globals, devices, rx, button_state,
                   frame, history>>

\* The sequence the last press started has run to its last step.
ResetCompleted == trail # <<>> /\ trail[Len(trail)] = "unset"

\* The locals after lines 116-126 for a datagram that reaches line 128.
Parsed(bytes, ip) ==
    LET data == StripMarkers(bytes)
        parts == Split(data)
    IN  [ip |-> ip, data |-> data, swarm_id |-> parts[1],
         analog_reading |-> parts[2], color |-> "", inReset |-> RESET_REQUEST,
         afterReset |-> ResetCompleted]

\* Where lines 116-126 lead for the bytes of one datagram:
\*   "exc116"  message.decode raises UnicodeDecodeError, the thread ends
\*   "l109"    the message is dropped (line 119 false, or line 126 continue)
\*   "exc124"  the unpacking of data.split(',') raises ValueError, the thread ends
\*   "l128"    swarm_id and analog_reading are bound
AfterValidation(bytes) ==
    IF ~Decodable(bytes) THEN "exc116"
    ELSE IF ~(StartsWith(bytes, RPi_startBit) /\ EndsWith(bytes, RPi_endBit)) THEN "l109"
    ELSE IF ~HasComma(StripMarkers(bytes)) THEN "l109"
    ELSE IF Len(Split(StripMarkers(bytes))) # 2 THEN "exc124"
    ELSE "l128"

\* lines 112-126: the blocked recvfrom returns a datagram, which is decoded,
\* checked for the markers and split; all of this is local to the thread.
Receive(d) ==
    /\ l_pc = "l112w"
    /\ l_pc' = AfterValidation(d.bytes)
    /\ rx' = IF AfterValidation(d.bytes) = "l128" THEN Parsed(d.bytes, d.ip) ELSE NoRx
    /\ received' = received + 1
    /\ UNCHANGED <<main_pc, m_pc, g_pc, globals, devices, button_state, frame,
                   presses, session, accepted, appliedInReset, flushed,
                   lastAccepted, trail>>

\* line 112 returns one of the datagrams the network delivers
L112Recv == received < MaxDatagrams /\ \E d \in Datagrams : Receive(d)

\* lines 113-114: the blocked recvfrom raises socket.error once the socket
\* has been closed under it; the loop is left.
L112Err ==
    /\ l_pc = "l112w"
    /\ sock = "closed"
    /\ l_pc' = "done"
    /\ UNCHANGED <<main_pc, m_pc, g_pc, globals, devices, rx, button_state,
                   frame, history>>

\* The log line of line 128 (its clock text left out) with the session in
\* which it was appended.
LogEntry == [swarm_id |-> rx.swarm_id, reading |-> rx.analog_reading, session |-> session]

\* lines 128-137: MASTER_LOG_TRACK[ip].append(log_entry); then the test for
\* the reset confirmation, which continues the loop.
L128 ==
    /\ l_pc = "l128"
    /\ MASTER_LOG_TRACK' = DictPut(MASTER_LOG_TRACK, rx.ip,
                                   Append(DefaultGet(MASTER_LOG_TRACK, rx.ip, <<>>), LogEntry))
    /\ IF rx.data = ResetBody
       THEN l_pc' = "l109" /\ rx' = NoRx
       ELSE l_pc' = "l139" /\ rx' = rx
    /\ UNCHANGED <<main_pc, m_pc, g_pc, PREV_BUTTON_STATE, RESET_REQUEST,
                   STOP_THREADS, ANALOG_READINGS, SWARM_COLORS, CURRENT_MASTER,
                   MASTER_DURATION_TRACK, LOG_FILE, devices, button_state,
                   frame, history>>

\* line 139: ANALOG_READINGS.append(int(analog_reading)); int raises
\* ValueError on text that is not an integer and the thread ends.
L139 ==
    /\ l_pc = "l139"
    /\ IF IntParsable(rx.analog_reading)
       THEN /\ ANALOG_READINGS' = DequeAppend(ANALOG_READINGS, IntOf(rx.analog_reading))
            /\ l_pc' = "l142"
            /\ rx' = rx
       ELSE /\ ANALOG_READINGS' = ANALOG_READINGS
            /\ l_pc' = "exc139"
            /\ rx' = NoRx
    /\ UNCHANGED <<main_pc, m_pc, g_pc, PREV_BUTTON_STATE, RESET_REQUEST,
                   STOP_THREADS, SWARM_COLORS, CURRENT_MASTER,
                   MASTER_DURATION_TRACK, MASTER_LOG_TRACK, LOG_FILE, devices,
                   button_state, frame, history>>

\* line 142: if swarm_id not in SWARM_COLORS
L142 ==
    /\ l_pc = "l142"
    /\ l_pc' = IF rx.swarm_id \in DOMAIN SWARM_COLORS THEN "l150" ELSE "l143"
    /\ UNCHANGED <<main_pc, m_pc, g_pc, globals, devices, rx, button_state,
                   frame, history>>

\* The palette entry lines 143-148 choose for a dict of n colors.
PaletteColor(n) == IF n = 0 THEN "red" ELSE IF n = 1 THEN "green" ELSE "yellow"

\* lines 143, 145, 147: the tests of len(SWARM_COLORS)
L143 ==
    /\ l_pc = "l143"
    /\ rx' = [rx EXCEPT !.color = PaletteColor(Cardinality(DOMAIN SWARM_COLORS))]
    /\ l_pc' = "l144"
    /\ UNCHANGED <<main_pc, m_pc, g_pc, globals, devices, button_state, frame,
                   history>>

\* lines 144, 146, 148: SWARM_COLORS[swarm_id] = color
L144 ==
    /\ l_pc = "l144"
    /\ SWARM_COLORS' = DictPut(SWARM_COLORS, rx.swarm_id, rx.color)
    /\ l_pc' = "l150"
    /\ UNCHANGED <<main_pc, m_pc, g_pc, PREV_BUTTON_STATE, RESET_REQUEST,
                   STOP_THREADS, ANALOG_READINGS, CURRENT_MASTER,
                   MASTER_DURATION_TRACK, MASTER_LOG_TRACK, LOG_FILE, devices,
                   rx, button_state, frame, history>>

\* lines 150-152: if CURRENT_MASTER != swarm_id: CURRENT_MASTER = swarm_id
L150 ==
    /\ l_pc = "l150"
    /\ CURRENT_MASTER' = IF CURRENT_MASTER # Some(rx.swarm_id)
                         THEN Some(rx.swarm_id) ELSE CURRENT_MASTER
    /\ l_pc' = "l154"
    /\ UNCHANGED <<main_pc, m_pc, g_pc, PREV_BUTTON_STATE, RESET_REQUEST,
                   STOP_THREADS, ANALOG_READINGS, SWARM_COLORS,
                   MASTER_DURATION_TRACK, MASTER_LOG_TRACK, LOG_FILE, devices,
                   rx, button_state, frame, history>>

\* line 154: MASTER_DURATION_TRACK[swarm_id] += 1; the message is done
L154 ==
    /\ l_pc = "l154"
    /\ MASTER_DURATION_TRACK' =
           DictPut(MASTER_DURATION_TRACK, rx.swarm_id,
                   DefaultGet(MASTER_DURATION_TRACK, rx.swarm_id, 0) + 1)
    /\ accepted' = DictPut(accepted, rx.swarm_id, DefaultGet(accepted, rx.swarm_id, 0) + 1)
    /\ appliedInReset' = (appliedInReset \/ RESET_REQUEST \/ rx.inReset)
    /\ lastAccepted' = Some(rx.swarm_id)
    /\ l_pc' = "l109"
    /\ rx' = NoRx
    /\ UNCHANGED <<main_pc, m_pc, g_pc, PREV_BUTTON_STATE, RESET_REQUEST,
                   STOP_THREADS, ANALOG_READINGS, SWARM_COLORS, CURRENT_MASTER,
                   MASTER_LOG_TRACK, LOG_FILE, devices, button_state, frame,
                   received, presses, session, flushed, trail>>

\* ------------------------------------------------ monitor_button thread
\* lines 163-165 and 170-171: the loop test, button_line.get_value() and the
\* edge test; without a rising edge PREV_BUTTON_STATE = button_state and the
\* poll sleep follow (only this thread uses PREV_BUTTON_STATE).
Poll(limit) ==
    /\ m_pc = "m163"
    /\ IF STOP_THREADS
       THEN /\ m_pc' = "done"
            /\ UNCHANGED <<button_state, PREV_BUTTON_STATE, presses, trail>>
       ELSE \E level \in {0, 1} :
            /\ (level = 1 /\ PREV_BUTTON_STATE = 0) => presses < limit
            /\ button_state' = level
            /\ IF level = 1 /\ PREV_BUTTON_STATE = 0
               THEN /\ m_pc' = "m166"
                    /\ presses' = presses + 1
                    /\ PREV_BUTTON_STATE' = PREV_BUTTON_STATE
                    /\ trail' = <<>>
               ELSE /\ m_pc' = "m163"
                    /\ presses' = presses
                    /\ PREV_BUTTON_STATE' = level
                    /\ trail' = trail
    /\ UNCHANGED <<main_pc, l_pc, g_pc, RESET_REQUEST, STOP_THREADS,
                   ANALOG_READINGS, SWARM_COLORS, CURRENT_MASTER,
                   MASTER_DURATION_TRACK, MASTER_LOG_TRACK, LOG_FILE, devices,
                   rx, frame, received, session, accepted, appliedInReset, flushed,
                   lastAccepted>>

\* the poll, in a run with at most MaxPresses rising edges
M163 == Poll(MaxPresses)

\* What open(LOG_FILE, 'w') and the header write of lines 62-63 leave on disk.
OpenedFile == [stage |-> "opened", summary |-> EmptyDict, raw |-> EmptyDict]

\* save_current_logs, lines 59-63: return if LOG_FILE is unset; otherwise
\* the file is opened for writing, which truncates it.
Save62 ==
    /\ m_pc = "m166"
    /\ IF IsNone(LOG_FILE)
       THEN /\ m_pc' = "m167"
            /\ UNCHANGED <<files, flushed>>
       ELSE /\ m_pc' = "s64"
            /\ files' = DictPut(files, TheValue(LOG_FILE), OpenedFile)
            /\ flushed' = LOG_FILE
    /\ UNCHANGED <<main_pc, l_pc, g_pc, globals, sock, yellow_led, sent, now,
                   rx, button_state, frame, received, presses, session, accepted,
                   appliedInReset, lastAccepted, trail>>

\* save_current_logs, lines 64-66: the summary of MASTER_DURATION_TRACK
Save64 ==
    /\ m_pc = "s64"
    /\ files' = [files EXCEPT ![TheValue(LOG_FILE)] =
                    [@ EXCEPT !.stage = "summary", !.summary = MASTER_DURATION_TRACK]]
    /\ m_pc' = "s68"
    /\ UNCHANGED <<main_pc, l_pc, g_pc, globals, sock, yellow_led, sent, now,
                   rx, button_state, frame, history>>

\* save_current_logs, lines 68-73: the raw lines of MASTER_LOG_TRACK by
\* address; the with block closes the file.
Save68 ==
    /\ m_pc = "s68"
    /\ files' = [files EXCEPT ![TheValue(LOG_FILE)] =
                    [@ EXCEPT !.stage = "complete", !.raw = MASTER_LOG_TRACK]]
    /\ trail' = Append(trail, "flush")
    /\ m_pc' = "m167"
    /\ UNCHANGED <<main_pc, l_pc, g_pc, globals, sock, yellow_led, sent, now,
                   rx, button_state, frame, counters>>

\* save_current_logs: open or write raises (OSError from the storage, or
\* RuntimeError when a dict changes size under the loops of lines 65 and
\* 69).  Nothing catches it: it leaves save_current_logs and monitor_button,
\* and the thread ends.  What was written so far stays on disk.
SaveRaises ==
    /\ m_pc \in {"m166", "s64", "s68"}
    /\ ~IsNone(LOG_FILE)
    /\ m_pc' = "exc62"
    /\ UNCHANGED <<main_pc, l_pc, g_pc, globals, devices, rx, button_state,
                   frame, history>>

\* line 167: get_new_log_file()
M167 ==
    /\ m_pc = "m167"
    /\ get_new_log_file
    /\ trail' = Append(trail, "rotate")
    /\ m_pc' = "r82"
    /\ UNCHANGED <<main_pc, l_pc, g_pc, PREV_BUTTON_STATE, RESET_REQUEST,
                   STOP_THREADS, ANALOG_READINGS, SWARM_COLORS, CURRENT_MASTER,
                   MASTER_DURATION_TRACK, MASTER_LOG_TRACK, sock, yellow_led,
                   sent, files, rx, button_state, frame, received, presses,
                   accepted, appliedInReset, flushed, lastAccepted>>

\* reset_system, line 82: RESET_REQUEST = True
R82 ==
    /\ m_pc = "r82"
    /\ RESET_REQUEST' = TRUE
    /\ appliedInReset' = FALSE
    /\ trail' = Append(trail, "set")
    /\ m_pc' = "r87"
    /\ UNCHANGED <<main_pc, l_pc, g_pc, PREV_BUTTON_STATE, STOP_THREADS,
                   ANALOG_READINGS, SWARM_COLORS, CURRENT_MASTER,
                   MASTER_DURATION_TRACK, MASTER_LOG_TRACK, LOG_FILE, devices,
                   rx, button_state, frame, received, presses, session, accepted,
                   flushed, lastAccepted>>

\* reset_system, lines 85-87: sock.sendto(reset_message, broadcast) succeeds
R87 ==
    /\ m_pc = "r87"
    /\ sock = "open"
    /\ sent' = sent + 1
    /\ trail' = Append(trail, "broadcast")
    /\ m_pc' = "r90"
    /\ UNCHANGED <<main_pc, l_pc, g_pc, globals, sock, yellow_led, files, now,
                   rx, button_state, frame, counters>>

\* reset_system, line 87: sendto raises OSError (socket closed, network
\* unreachable).  Nothing catches it: it leaves reset_system and
\* monitor_button, and the thread ends.
R87Raises ==
    /\ m_pc = "r87"
    /\ m_pc' = "exc87"
    /\ UNCHANGED <<main_pc, l_pc, g_pc, globals, devices, rx, button_state,
                   frame, history>>

\* reset_system, line 90: SWARM_COLORS = {}
R90 ==
    /\ m_pc = "r90"
    /\ SWARM_COLORS' = EmptyDict
    /\ m_pc' = "r91"
    /\ UNCHANGED <<main_pc, l_pc, g_pc, PREV_BUTTON_STATE, RESET_REQUEST,
                   STOP_THREADS, ANALOG_READINGS, CURRENT_MASTER,
                   MASTER_DURATION_TRACK, MASTER_LOG_TRACK, LOG_FILE, devices,
                   rx, button_state, frame, history>>

\* reset_system, line 91: CURRENT_MASTER = None
R91 ==
    /\ m_pc = "r91"
    /\ CURRENT_MASTER' = None
    /\ m_pc' = "r92"
    /\ UNCHANGED <<main_pc, l_pc, g_pc, PREV_BUTTON_STATE, RESET_REQUEST,
                   STOP_THREADS, ANALOG_READINGS, SWARM_COLORS,
                   MASTER_DURATION_TRACK, MASTER_LOG_TRACK, LOG_FILE, devices,
                   rx, button_state, frame, history>>

\* reset_system, line 92: MASTER_DURATION_TRACK.clear()
R92 ==
    /\ m_pc = "r92"
    /\ MASTER_DURATION_TRACK' = EmptyDict
    /\ accepted' = EmptyDict
    /\ lastAccepted' = None
    /\ m_pc' = "r93"
    /\ UNCHANGED <<main_pc, l_pc, g_pc, PREV_BUTTON_STATE, RESET_REQUEST,
                   STOP_THREADS, ANALOG_READINGS, SWARM_COLORS, CURRENT_MASTER,
                   MASTER_LOG_TRACK, LOG_FILE, devices, rx, button_state, frame,
                   received, presses, session, flushed, appliedInReset, trail>>

\* reset_system, line 93: ANALOG_READINGS.clear()
R93 ==
    /\ m_pc = "r93"
    /\ ANALOG_READINGS' = <<>>
    /\ trail' = Append(trail, "clear")
    /\ m_pc' = "r96"
    /\ UNCHANGED <<main_pc, l_pc, g_pc, PREV_BUTTON_STATE, RESET_REQUEST,
                   STOP_THREADS, SWARM_COLORS, CURRENT_MASTER,
                   MASTER_DURATION_TRACK, MASTER_LOG_TRACK, LOG_FILE, devices,
                   rx, button_state, frame, counters>>

\* reset_system, line 96: yellow_led_line.set_value(1)
R96 ==
    /\ m_pc = "r96"
    /\ yellow_led' = 1
    /\ trail' = Append(trail, "led_on")
    /\ m_pc' = "r97"
    /\ UNCHANGED <<main_pc, l_pc, g_pc, globals, sock, sent, files, now, rx,
                   button_state, frame, counters>>

\* The hold of line 97, in seconds.
HoldSeconds == 3

\* reset_system, line 97: time.sleep(3)
R97 ==
    /\ m_pc = "r97"
    /\ now' = now + HoldSeconds
    /\ trail' = Append(trail, "hold")
    /\ m_pc' = "r98"
    /\ UNCHANGED <<main_pc, l_pc, g_pc, globals, sock, yellow_led, sent, files,
                   rx, button_state, frame, counters>>

\* reset_system without line 98: the indicator is left on.
R98_LedLeftOn ==
    /\ m_pc = "r98"
    /\ trail' = Append(trail, "led_off")
    /\ m_pc' = "r100"
    /\ UNCHANGED <<main_pc, l_pc, g_pc, globals, devices, rx, button_state,
                   frame, counters>>

\* reset_system, line 98: yellow_led_line.set_value(0)
R98 ==
    /\ m_pc = "r98"
    /\ yellow_led' = 0
    /\ trail' = Append(trail, "led_off")
    /\ m_pc' = "r100"
    /\ UNCHANGED <<main_pc, l_pc, g_pc, globals, sock, sent, files, now, rx,
                   button_state, frame, counters>>

\* Line 100 with line 170 moved into an else branch of the edge test: after
\* a reset PREV_BUTTON_STATE keeps the level it had before the press.
R100_PrevNotUpdated ==
    /\ m_pc = "r100"
    /\ RESET_REQUEST' = FALSE
    /\ trail' = Append(trail, "unset")
    /\ m_pc' = "m163"
    /\ UNCHANGED <<main_pc, l_pc, g_pc, PREV_BUTTON_STATE, STOP_THREADS,
                   ANALOG_READINGS, SWARM_COLORS, CURRENT_MASTER,
                   MASTER_DURATION_TRACK, MASTER_LOG_TRACK, LOG_FILE, devices,
                   rx, button_state, frame, counters>>

\* reset_system without line 100: the flag is never set back.
R100_FlagLeftSet ==
    /\ m_pc = "r100"
    /\ PREV_BUTTON_STATE' = button_state
    /\ trail' = Append(trail, "unset")
    /\ m_pc' = "m163"
    /\ UNCHANGED <<main_pc, l_pc, g_pc, RESET_REQUEST, STOP_THREADS,
                   ANALOG_READINGS, SWARM_COLORS, CURRENT_MASTER,
                   MASTER_DURATION_TRACK, MASTER_LOG_TRACK, LOG_FILE, devices,
                   rx, button_state, frame, counters>>

\* reset_system, line 100: RESET_REQUEST = False; back in monitor_button,
\* lines 170-171: PREV_BUTTON_STATE = button_state and the poll sleep
R100 ==
    /\ m_pc = "r100"
    /\ RESET_REQUEST' = FALSE
    /\ PREV_BUTTON_STATE' = button_state
    /\ trail' = Append(trail, "unset")
    /\ m_pc' = "m163"
    /\ UNCHANGED <<main_pc, l_pc, g_pc, STOP_THREADS,
                   ANALOG_READINGS, SWARM_COLORS, CURRENT_MASTER,
                   MASTER_DURATION_TRACK, MASTER_LOG_TRACK, LOG_FILE, devices,
                   rx, button_state, frame, counters>>

\* ---------------------------------------------------- plot_graph thread
\* line 184: while not STOP_THREADS; lines 186-237 build the figure and
\* enter plt.show(), which runs the two animation callbacks in turn, once
\* per interval, until the window is closed.
G184 ==
    /\ g_pc = "g184"
    /\ g_pc' = IF STOP_THREADS THEN "done" ELSE "g237"
    /\ UNCHANGED <<main_pc, l_pc, m_pc, globals, devices, rx, button_state,
                   frame, history>>

\* Python truth of CURRENT_MASTER (line 213): None and "" are false
Truthy(o) == ~IsNone(o) /\ TheValue(o) # <<>>

\* update_plot, lines 203-221: reads ANALOG_READINGS, CURRENT_MASTER and
\* SWARM_COLORS and draws the line.  Of what it draws the model keeps the
\* master it read, for the refresh under way; bar_data, which nothing
\* reads, is left out.
UpdatePlot ==
    /\ g_pc = "g237"
    /\ frame' = [master |-> CURRENT_MASTER]
    /\ g_pc' = "g223"
    /\ UNCHANGED <<main_pc, l_pc, m_pc, globals, devices, rx, button_state,
                   history>>

\* The bars update_bar draws (lines 225-226): one per key of
\* MASTER_DURATION_TRACK.
Bars == DOMAIN MASTER_DURATION_TRACK

\* update_bar, lines 223-230: reads MASTER_DURATION_TRACK and SWARM_COLORS
\* and draws the bars; the refresh is complete.
UpdateBar ==
    /\ g_pc = "g223"
    /\ frame' = NoFrame
    /\ g_pc' = "g237"
    /\ UNCHANGED <<main_pc, l_pc, m_pc, globals, devices, rx, button_state,
                   history>>

\* lines 237-240: the window is closed, plt.show() returns and the test
\* while RESET_REQUEST is made
G240 ==
    /\ g_pc \in {"g237", "g223"}
    /\ g_pc' = IF RESET_REQUEST THEN "g245" ELSE "g184"
    /\ frame' = NoFrame
    /\ UNCHANGED <<main_pc, l_pc, m_pc, globals, devices, rx, button_state,
                   history>>

\* lines 241-246: the figure is closed, MASTER_DURATION_TRACK.clear(), break
G245 ==
    /\ g_pc = "g245"
    /\ MASTER_DURATION_TRACK' = EmptyDict
    /\ g_pc' = "g184"
    /\ UNCHANGED <<main_pc, l_pc, m_pc, PREV_BUTTON_STATE, RESET_REQUEST,
                   STOP_THREADS, ANALOG_READINGS, SWARM_COLORS, CURRENT_MASTER,
                   MASTER_LOG_TRACK, LOG_FILE, devices, rx, button_state,
                   frame, history>>

\* ------------------------------------------------------ specification
Next ==
    \/ Main252 \/ Main260 \/ Main261 \/ Main262 \/ Main271 \/ Main272
    \/ L109 \/ L110 \/ L112 \/ L112Recv \/ L112Err \/ L128 \/ L139 \/ L142
    \/ L143 \/ L144 \/ L150 \/ L154
    \/ M163 \/ Save62 \/ Save64 \/ Save68 \/ SaveRaises \/ M167
    \/ R82 \/ R87 \/ R87Raises \/ R90 \/ R91 \/ R92 \/ R93 \/ R96 \/ R97
    \/ R98 \/ R100
    \/ G184 \/ UpdatePlot \/ UpdateBar \/ G240 \/ G245

Spec == Init /\ [][Next]_vars

\* The datagrams that are applied to the end: framed, with a non-empty
\* swarmId, one comma and an integer reading.
AppliedDatagrams ==
    {d \in Datagrams : AfterValidation(d.bytes) = "l128"
                          /\ IntParsable(Parsed(d.bytes, d.ip).analog_reading)}

\* line 112 returns a datagram that will be applied, in a run in which the
\* network delivers at most MaxReadingDatagrams of them.
ReadingsRecv ==
    received < MaxReadingDatagrams /\ \E d \in AppliedDatagrams : Receive(d)

\* The steps of the runs in which the network delivers such datagrams only,
\* nothing raises, and main has not yet come to start the graph thread.
ReadingsNext ==
    \/ Main252 \/ Main260 \/ Main261
    \/ L109 \/ L110 \/ L112 \/ ReadingsRecv \/ L128 \/ L139 \/ L142
    \/ L143 \/ L144 \/ L150 \/ L154
    \/ M163 \/ Save62 \/ Save64 \/ Save68 \/ M167
    \/ R82 \/ R87 \/ R90 \/ R91 \/ R92 \/ R93 \/ R96 \/ R97 \/ R98 \/ R100

ReadingsSpec == Init /\ [][ReadingsNext]_vars

\* the poll, in a run with at most MaxMonitorPresses rising edges
MonitorPoll == Poll(MaxMonitorPresses)

\* The steps of the runs in which the network delivers nothing and the
\* graph thread, once started, is not given the processor: the monitor and
\* its sequence, beside a listener that waits, up to the shutdown.
MonitorNext ==
    \/ Main252 \/ Main260 \/ Main261 \/ Main262 \/ Main271 \/ Main272
    \/ L109 \/ L110 \/ L112 \/ L112Err
    \/ MonitorPoll \/ Save62 \/ Save64 \/ Save68 \/ SaveRaises \/ M167
    \/ R82 \/ R87 \/ R87Raises \/ R90 \/ R91 \/ R92 \/ R93 \/ R96 \/ R97
    \/ R98 \/ R100

MonitorSpec == Init /\ [][MonitorNext]_vars

\* The steps of listen_for_messages that do not wait for the network: a
\* thread that can run is run.
ListenerProgress ==
    L109 \/ L110 \/ L112 \/ L112Err \/ L128 \/ L139 \/ L142 \/ L143 \/ L144
    \/ L150 \/ L154

\* The steps of the sequence a press starts, when none of them raises; the
\* sleep of line 97 returns.
SequenceProgress ==
    Save62 \/ Save64 \/ Save68 \/ M167 \/ R82 \/ R87 \/ R90 \/ R91 \/ R92
    \/ R93 \/ R96 \/ R97 \/ R98 \/ R100

\* sendto on the closed socket does not block: it raises.
R87OnClosed == R87Raises /\ sock = "closed"

\* line 112 returns a datagram, in a run in which the network delivers at
\* most MaxFairDatagrams of them.
FairRecv == L112Recv /\ received < MaxFairDatagrams

\* The steps of Next, with that bound on the datagrams.
FairNext ==
    \/ Main252 \/ Main260 \/ Main261 \/ Main262 \/ Main271 \/ Main272
    \/ L109 \/ L110 \/ L112 \/ FairRecv \/ L112Err \/ L128 \/ L139 \/ L142
    \/ L143 \/ L144 \/ L150 \/ L154
    \/ M163 \/ Save62 \/ Save64 \/ Save68 \/ SaveRaises \/ M167
    \/ R82 \/ R87 \/ R87Raises \/ R90 \/ R91 \/ R92 \/ R93 \/ R96 \/ R97
    \/ R98 \/ R100
    \/ G184 \/ UpdatePlot \/ UpdateBar \/ G240 \/ G245

\* Fair scheduling of the listener and of the monitor's sequence.
FairSpec ==
    /\ Init
    /\ [][FairNext]_vars
    /\ WF_vars(ListenerProgress)
    /\ WF_vars(SequenceProgress)
    /\ WF_vars(R87OnClosed)

\* ------------------------------------------------- notions of the claims
\* The four parts of the store are empty.
StoreEmpty ==
    /\ ANALOG_READINGS = <<>>
    /\ SWARM_COLORS = EmptyDict
    /\ IsNone(CURRENT_MASTER)
    /\ MASTER_DURATION_TRACK = EmptyDict

\* The ingestion loop is between messages: at its tests or in recvfrom.
BetweenMessages == l_pc \in {"l109", "l110", "l112", "l112w"}

\* The ingestion loop is in its loop: between messages or processing one.
ListenerRunning ==
    l_pc \in {"l109", "l110", "l112", "l112w", "l128", "l139", "l142", "l143",
              "l144", "l150", "l154"}

\* The trigger monitor is in its loop or in a call made from it.
MonitorRunning ==
    m_pc \in {"m163", "m166", "s64", "s68", "m167", "r82", "r87", "r90", "r91",
              "r92", "r93", "r96", "r97", "r98", "r100"}

\* This step of listen_for_messages works on a datagram it has received.
ListenerApplies == L128 \/ L139 \/ L142 \/ L143 \/ L144 \/ L150 \/ L154

\* The body in hand splits into a non-empty swarmId and an integer reading.
WellFormedRx == rx.swarm_id # <<>> /\ IntParsable(rx.analog_reading)

\* A raw entry of a message with a non-empty swarmId and an integer reading.
WellFormedEntry(e) == e.swarm_id # <<>> /\ IntParsable(e.reading)

\* The raw entries of log that were appended in session n, by address.
SessionEntries(log, n) ==
    LET of(ip) == SelectSeq(log[ip], LAMBDA e : e.session = n)
    IN  [ip \in {i \in DOMAIN log : of(i) # <<>>} |-> of(ip)]

\* No address has a raw entry.
NoRawEntries(log) == \A ip \in DOMAIN log : log[ip] = <<>>

\* ------------------------------------------------------------- claims
\* C1: a datagram received while RESET_REQUEST is active is rejected: no
\* step of the ingestion loop works on a datagram that recvfrom returned
\* while the flag was set.
C1_RejectedWhileResetActive == [][ListenerApplies => ~rx.inReset]_vars

\* C2: at the step that sets RESET_REQUEST back to False (line 100) the store
\* is empty: no readings, no colors, no master, no durations.
C2_StoreEmptyWhenResetEnds == [][R100 => StoreEmpty]_vars

\* C3: whenever update_bar is about to read MASTER_DURATION_TRACK for the
\* refresh in which update_plot read the master, and a message of that
\* master has been applied in full since the last clear, the master has an
\* entry.
C3_SnapshotMasterHasDuration ==
    (g_pc = "g223" /\ Truthy(frame.master) /\ TheValue(frame.master) \in DOMAIN accepted)
        => TheValue(frame.master) \in Bars

\* C4: the ingestion loop leaves its running state only on the shutdown
\* signal or on a receive error of the closed socket; no datagram ends it.
C4_OnlyShutdownStopsLoop ==
    [][(ListenerRunning /\ ~ListenerRunning') => (STOP_THREADS \/ sock = "closed")]_vars

\* C5: a step of the ingestion loop on a body that does not split into a
\* non-empty swarmId and an integer reading changes neither the store nor
\* the raw log.
C5_MalformedChangesNothing ==
    [][(ListenerApplies /\ ~WellFormedRx) => UNCHANGED <<store, MASTER_LOG_TRACK>>]_vars

\* C6: when the ingestion loop is between messages, MASTER_DURATION_TRACK
\* holds, for every id, the number of messages of that id applied since the
\* last reset (or since start).  Stated where "since the last reset" has one
\* meaning: no reset has the flag set, and no message was received or
\* finished while the last one had it set.
C6_DurationCountsMessages ==
    (BetweenMessages /\ ~RESET_REQUEST /\ ~appliedInReset) =>
        \A id \in (DOMAIN MASTER_DURATION_TRACK) \cup (DOMAIN accepted) :
            DefaultGet(MASTER_DURATION_TRACK, id, 0) = DefaultGet(accepted, id, 0)

\* C7: when the broadcast of line 87 fails, reset_system goes on with the
\* clear of the store (line 90).
C7_ResetGoesOnAfterSendFailure == [][R87Raises => m_pc' = "r90"]_vars

\* C8: at the rotation (line 167) that follows the flush, the raw entries in
\* memory are empty afterwards, and the file of the outgoing session holds
\* exactly the raw entries appended in that session.
C8_RotationStartsEmptySession ==
    [][M167 => /\ NoRawEntries(MASTER_LOG_TRACK')
               /\ ~IsNone(flushed)
               /\ files[TheValue(flushed)].stage = "complete"
               /\ files[TheValue(flushed)].raw = SessionEntries(MASTER_LOG_TRACK, session)]_vars

\* C9: at the step that clears the durations (line 92), everything about to
\* be dropped is in the file flushed for the outgoing session: each id's
\* count is covered by the file's summary, and each raw entry of a
\* well-formed message is among the file's raw entries.
C9_NothingLostAtClear ==
    [][R92 =>
        /\ ~IsNone(flushed)
        /\ \A id \in DOMAIN MASTER_DURATION_TRACK :
              /\ id \in DOMAIN files[TheValue(flushed)].summary
              /\ files[TheValue(flushed)].summary[id] >= MASTER_DURATION_TRACK[id]
        /\ \A ip \in DOMAIN MASTER_LOG_TRACK :
              \A k \in 1..Len(MASTER_LOG_TRACK[ip]) :
                 WellFormedEntry(MASTER_LOG_TRACK[ip][k]) =>
                    /\ ip \in DOMAIN files[TheValue(flushed)].raw
                    /\ k <= Len(files[TheValue(flushed)].raw[ip])]_vars

\* C10: a flush that fails leaves the session in memory as it was, does not
\* rotate, and leaves the trigger monitor in its loop, where a later press
\* flushes again.
C10_FailedFlushIsRetried ==
    [][SaveRaises => /\ UNCHANGED <<LOG_FILE, MASTER_LOG_TRACK, MASTER_DURATION_TRACK>>
                     /\ MonitorRunning']_vars

\* ------------------------------------------- notions of claims C11-C20
\* The steps of the sequence a press starts, in the order of lines 166-168
\* and 82-100.
ResetOrder ==
    <<"flush", "rotate", "set", "broadcast", "clear", "led_on", "hold",
      "led_off", "unset">>

\* s is an initial part of t.
IsPrefix(s, t) == Len(s) <= Len(t) /\ SubSeq(t, 1, Len(s)) = s

\* The place of a step in ResetOrder.
StepNo(step) == CHOOSE k \in 1..Len(ResetOrder) : ResetOrder[k] = step

\* The sequence the last press started has done this step.
Did(step) == Len(trail) >= StepNo(step)

\* The broadcasts made if each sequence broadcasts once, at its place.
BroadcastsDue ==
    IF Did("broadcast") THEN presses ELSE IF presses = 0 THEN 0 ELSE presses - 1

\* The monitor is in reset_system.
InReset ==
    m_pc \in {"r82", "r87", "r90", "r91", "r92", "r93", "r96", "r97", "r98", "r100"}

\* The body obeys the grammar of the wire protocol: the reset sentinel, or
\* a non-empty swarmId, one comma and an integer reading.
BodyInGrammar(body) ==
    \/ body = ResetBody
    \/ /\ Len(Split(body)) = 2
       /\ Split(body)[1] # <<>>
       /\ IntParsable(Split(body)[2])

\* The datagram is framed by the two markers around a body of the grammar.
StructurallyValid(bytes) ==
    /\ Decodable(bytes)
    /\ StartsWith(bytes, RPi_startBit)
    /\ EndsWith(bytes, RPi_endBit)
    /\ BodyInGrammar(StripMarkers(bytes))

\* The ids that have the color c.
IdsOfColor(c) == {id \in DOMAIN SWARM_COLORS : SWARM_COLORS[id] = c}

\* A step of plot_graph.
PlotStep == G184 \/ UpdatePlot \/ UpdateBar \/ G240 \/ G245

\* The ids the store tracks: the master and the ids with a duration.
TrackedIds ==
    (DOMAIN MASTER_DURATION_TRACK)
        \cup (IF IsNone(CURRENT_MASTER) THEN {} ELSE {TheValue(CURRENT_MASTER)})

\* ------------------------------------------------------ claims C11-C20
\* C11: the sequence a press starts does its steps in the order flush,
\* rotate, flag set, broadcast, clear, indicator on, hold, indicator off,
\* flag unset, each after the one before it: the flushed file is complete and
\* LOG_FILE names another file from the rotation on, RESET_REQUEST is set
\* exactly from "set" until "unset", each sequence has broadcast once when
\* it is past its broadcast, and the indicator is on exactly between
\* "led_on" and "led_off", hence only while RESET_REQUEST is set.
C11_ResetStepsInOrder ==
    /\ IsPrefix(trail, ResetOrder)
    /\ Did("flush") => /\ ~IsNone(flushed)
                       /\ files[TheValue(flushed)].stage = "complete"
    /\ Did("rotate") <=> (trail # <<>> /\ LOG_FILE # flushed)
    /\ RESET_REQUEST <=> (Did("set") /\ ~Did("unset"))
    /\ sent = BroadcastsDue
    /\ (yellow_led = 1) <=> (Did("led_on") /\ ~Did("led_off"))
    /\ (yellow_led = 1) => RESET_REQUEST

\* C11 witness: the sequence of a second press has run from the flush to the
\* unset of the flag.
C11_Witness ==
    trail = ResetOrder /\ ~RESET_REQUEST /\ presses = 2 /\ sent = 2 /\ yellow_led = 0

\* C12: ANALOG_READINGS never holds more than its capacity; an append to a
\* full buffer drops the oldest reading, puts the new one last and keeps the
\* others in their order; and only the reset's clear (line 93) empties it.
C12_ReadingsBounded ==
    [][/\ Len(ANALOG_READINGS') <= ReadingsCapacity
       /\ (ANALOG_READINGS # <<>> /\ ANALOG_READINGS' = <<>>) => m_pc = "r93"
       /\ (L139 /\ IntParsable(rx.analog_reading)) =>
             LET old == ANALOG_READINGS
                 new == ANALOG_READINGS'
                 dropped == IF Len(old) >= ReadingsCapacity THEN 1 ELSE 0
             IN  /\ Len(new) = Len(old) + 1 - dropped
                 /\ new[Len(new)] = IntOf(rx.analog_reading)
                 /\ \A i \in 1..(Len(new) - 1) : new[i] = old[i + dropped]]_vars

\* C12 witness: with no reset so far, more readings than the capacity have
\* been appended, the last of them just now: the oldest was evicted, the
\* buffer is full, and the readings kept before the new one differ, so
\* that their order shows.
C12_Witness ==
    /\ l_pc = "l142"
    /\ presses = 0
    /\ received > ReadingsCapacity
    /\ Len(ANALOG_READINGS) = ReadingsCapacity
    /\ ANALOG_READINGS[ReadingsCapacity] = IntOf(rx.analog_reading)
    /\ ANALOG_READINGS[1] # ANALOG_READINGS[2]

\* C13: between resets the colors follow the arrival order: of the ids that
\* have a color exactly one has the first color, if there are two or more
\* exactly one has the second, and all others have the third.  Stated
\* where "between resets" has one meaning, as for C6: the loop is between
\* messages, no reset has the flag set, and no message was received or
\* finished while the last one had it set.
C13_ColorByArrivalOrder ==
    (BetweenMessages /\ ~RESET_REQUEST /\ ~appliedInReset) =>
        LET n == Cardinality(DOMAIN SWARM_COLORS)
        IN  /\ n >= 1 => Cardinality(IdsOfColor("red")) = 1
            /\ n >= 2 => Cardinality(IdsOfColor("green")) = 1
            /\ Cardinality(IdsOfColor("yellow")) = (IF n >= 2 THEN n - 2 ELSE 0)

\* C14: once STOP_THREADS is set and the socket is closed, a reset that is
\* in progress is left only by its last step, with RESET_REQUEST set back.
C14_ResetCompletesAfterShutdown ==
    [][(STOP_THREADS /\ sock = "closed" /\ InReset /\ ~InReset')
           => (~RESET_REQUEST' /\ m_pc' = "m163")]_vars

\* C15: a poll starts the sequence exactly when the level polled is 1 and
\* the level polled before it was 0; back at the poll PREV_BUTTON_STATE is
\* the level polled last, also after a reset; and a sequence starts only
\* with RESET_REQUEST unset and no earlier sequence under way.
C15_OneResetPerRisingEdge ==
    [][/\ (m_pc' = "m163") => (PREV_BUTTON_STATE' = button_state')
       /\ (m_pc = "m163" /\ ~STOP_THREADS) =>
              ((m_pc' = "m166") <=> (button_state = 0 /\ button_state' = 1))
       /\ (m_pc # "m166" /\ m_pc' = "m166") =>
              /\ m_pc = "m163"
              /\ ~RESET_REQUEST
              /\ (trail = <<>> \/ ResetCompleted)]_vars

\* C15 witness: after a second press the second reset is over, the button
\* is still held at 1 and the monitor is back at its poll; two presses, two
\* broadcasts.
C15_Witness ==
    /\ m_pc = "m163"
    /\ ResetCompleted
    /\ button_state = 1
    /\ PREV_BUTTON_STATE = 1
    /\ presses = 2
    /\ sent = 2

\* C16: every structurally valid datagram that recvfrom returns while
\* RESET_REQUEST is unset, the reset sentinel included, reaches the append
\* to the raw log (line 129).
C16_ValidMessageIsLogged ==
    [][\A d \in Datagrams :
          (Receive(d) /\ ~RESET_REQUEST /\ StructurallyValid(d.bytes))
              => l_pc' = "l128"]_vars

\* C17: when the ingestion loop is between messages, CURRENT_MASTER is the
\* id of the message applied last since the clear, or None if there is none.
\* Stated where "since the last reset" has one meaning, as for C6.
C17_MasterIsLastAccepted ==
    (BetweenMessages /\ ~RESET_REQUEST /\ ~appliedInReset)
        => CURRENT_MASTER = lastAccepted

\* C18: no step of plot_graph changes the store.
C18_ConsumerIsReadOnly == [][PlotStep => UNCHANGED store]_vars

\* C19: under fair scheduling, a reset that has set RESET_REQUEST sets it
\* back unless the broadcast fails; while a reset has the flag set the
\* listener comes to call recvfrom again unless it has ended; and a
\* well-formed message received after a reset was completed is applied to
\* the end (line 154).
C19_ResetEndsAndIngestionResumes ==
    /\ RESET_REQUEST ~> (~RESET_REQUEST \/ m_pc = "exc87")
    /\ (RESET_REQUEST /\ ListenerRunning)
           ~> (l_pc \in {"l112", "l112w"} \/ ~ListenerRunning \/ m_pc = "exc87")
    /\ (l_pc = "l128" /\ rx.afterReset /\ WellFormedRx)
           ~> (l_pc = "l109" /\ rx = NoRx)

\* C19 witness: the sequence is complete, the flag is unset and a
\* well-formed message received after that is at its last step.
C19_Witness ==
    /\ trail = ResetOrder
    /\ ~RESET_REQUEST
    /\ l_pc = "l154"
    /\ rx.afterReset
    /\ WellFormedRx
    /\ ~IsNone(CURRENT_MASTER)

\* C20: when the ingestion loop is between messages and no reset has the
\* flag set, every id that is the master or has a duration has a color; also
\* when no message was received or finished while the last reset had the
\* flag set.
C20_TrackedIdsHaveColor ==
    (BetweenMessages /\ ~RESET_REQUEST /\ ~appliedInReset)
        => TrackedIds \subseteq DOMAIN SWARM_COLORS

====
